---- MODULE Spec2Model ----
(***************************************************************************)
(* limbusart: the art registry (data.rs) and the request path of the       *)
(* service (main.rs): pick an entry, look it up in the link cache, resolve *)
(* it on a miss, store the result.                                         *)
(***************************************************************************)
EXTENDS Integers, Sequences, FiniteSets, TLC

\* ------------------------------------------------------------------ bounds
\* A registry text given to Data::parse or Data::reload on its own has at
\* most MaxSegs newline-separated segments.
MaxSegs == 3
\* The registry file holds at most MaxFileSegs segments when the service
\* reads it (at startup and on SIGUSR2).
MaxFileSegs == 2
\* Request handlers that can be in flight at once.
MaxRequests == 2

\* ------------------------------------------------------------ text values
None == "<none>"

Tw1 == "https://twitter.com/pm/status/1"
Sb1 == "https://safebooru.org/index.php?page=post&s=view&id=1"
\* a well-formed URL whose host is not in the host table
X1 == "https://x.com/pm/status/2"
\* parses as a URI (path only) and has no authority
NoHost == "/pm/status/3"
\* Safebooru URLs without a usable id: no id pair, no query at all
SbNoId == "https://safebooru.org/index.php?page=post&s=view"
SbNoQuery == "https://safebooru.org/index.php"
\* the empty line
Blank == ""

\* Values of the "source" field of a Safebooru post.
SrcTw == "https://twitter.com/artist/status/9"
SrcPximg == "https://i.pximg.net/img/12345_p0.jpg"
PixivArtworks == "https://pixiv.net/en/artworks/12345"
SrcOther == "https://www.deviantart.com/a/art-1"
\* Values of the "sample_url" field: with a query, relative, not a URI.
SampleQ == "https://safebooru.org/samples/1/sample_x.jpg?123"
SampleRel == "/samples/1/sample_x.jpg"
SampleBad == "not a url"
\* A JSON value that is not a string.
NonStr == "<non-string>"
\* Values of the Location header of the mirror's response.
LocA == "https://pbs.twimg.com/media/A.jpg"
LocB == "https://pbs.twimg.com/media/B.jpg"

\* What one line of a registry text can be.
Segments == {Blank, Tw1, Sb1, X1, NoHost}

\* A text is what lies between its newlines: "a\n" is <<"a", "">>, the
\* empty text is <<"">>, "a\n\nb" is <<"a", "", "b">>.
TextsUpTo(n) == UNION {[1..k -> Segments] : k \in 1..n}

Texts == TextsUpTo(MaxSegs)

FileTexts == TextsUpTo(MaxFileSegs)

OneLineTexts == TextsUpTo(1)

\* str::lines(): the segments, without the empty segment that follows a
\* final newline (and without the only segment of the empty text).
Lines(text) ==
    IF text[Len(text)] = Blank THEN SubSeq(text, 1, Len(text) - 1) ELSE text

\* ---------------------------------------------------------------- http::Uri
\* Uri::from_str on the strings of the model.
UriFromStr(s) ==
    CASE s = Tw1 -> [ok |-> TRUE, scheme |-> "https", host |-> "twitter.com",
                     path |-> "/pm/status/1", query |-> None]
      [] s = Sb1 -> [ok |-> TRUE, scheme |-> "https", host |-> "safebooru.org",
                     path |-> "/index.php", query |-> "page=post&s=view&id=1"]
      [] s = X1 -> [ok |-> TRUE, scheme |-> "https", host |-> "x.com",
                    path |-> "/pm/status/2", query |-> None]
      [] s = NoHost -> [ok |-> TRUE, scheme |-> None, host |-> None,
                        path |-> "/pm/status/3", query |-> None]
      [] s = SbNoId -> [ok |-> TRUE, scheme |-> "https", host |-> "safebooru.org",
                        path |-> "/index.php", query |-> "page=post&s=view"]
      [] s = SbNoQuery -> [ok |-> TRUE, scheme |-> "https", host |-> "safebooru.org",
                           path |-> "/index.php", query |-> None]
      [] s = SrcTw -> [ok |-> TRUE, scheme |-> "https", host |-> "twitter.com",
                       path |-> "/artist/status/9", query |-> None]
      [] s = SrcOther -> [ok |-> TRUE, scheme |-> "https",
                          host |-> "www.deviantart.com",
                          path |-> "/a/art-1", query |-> None]
      [] s = SrcPximg -> [ok |-> TRUE, scheme |-> "https", host |-> "i.pximg.net",
                          path |-> "/img/12345_p0.jpg", query |-> None]
      [] s = PixivArtworks -> [ok |-> TRUE, scheme |-> "https", host |-> "pixiv.net",
                               path |-> "/en/artworks/12345", query |-> None]
      [] s = SampleQ -> [ok |-> TRUE, scheme |-> "https", host |-> "safebooru.org",
                         path |-> "/samples/1/sample_x.jpg", query |-> "123"]
      [] s = SampleRel -> [ok |-> TRUE, scheme |-> None, host |-> None,
                           path |-> "/samples/1/sample_x.jpg", query |-> None]
      [] OTHER -> [ok |-> FALSE, scheme |-> None, host |-> None,
                   path |-> None, query |-> None]

\* ------------------------------------------------------------------ data.rs
\* ArtKind::from_str
ArtKindFromStrSwapped(s) ==
    CASE s = "twitter.com" -> [tag |-> "ok", kind |-> "Safebooru"]
      [] s = "safebooru.org" -> [tag |-> "ok", kind |-> "Twitter"]
      [] OTHER -> [tag |-> "err", kind |-> None]

ArtKindFromStr(s) ==
    CASE s = "twitter.com" -> [tag |-> "ok", kind |-> "Twitter"]
      [] s = "safebooru.org" -> [tag |-> "ok", kind |-> "Safebooru"]
      [] OTHER -> [tag |-> "err", kind |-> None]

\* Art::from_str: "ok" with the entry, "err" (the ? operator returned an
\* AppError) or "panic" (authority().unwrap() on a URI with no authority).
ArtFromStr(s) ==
    LET url == UriFromStr(s) IN
    IF ~url.ok THEN [tag |-> "err", art |-> None]
    ELSE IF url.host = None THEN [tag |-> "panic", art |-> None]
    ELSE LET k == ArtKindFromStr(url.host) IN
         IF k.tag # "ok" THEN [tag |-> "err", art |-> None]
         ELSE [tag |-> "ok", art |-> [url |-> s, kind |-> k.kind]]

EmptyMap == [u \in {} |-> 0]

\* HashMap::insert
MapInsert(m, k, v) == [x \in DOMAIN m \cup {k} |-> IF x = k THEN v ELSE m[x]]

\* The body of the loop of Data::parse for one parsed entry.
ParseEntryOffByOne(d, a) ==
    [art |-> Append(d.art, a),
     art_indices |-> MapInsert(d.art_indices, a.url, Len(d.art) + 1)]

ParseEntry(d, a) ==
    [art |-> Append(d.art, a),
     art_indices |-> MapInsert(d.art_indices, a.url, Len(d.art))]

RECURSIVE ParseLoop(_, _)
ParseLoop(lines, d) ==
    IF lines = <<>> THEN [tag |-> "ok", data |-> d]
    ELSE LET a == ArtFromStr(Head(lines)) IN
         IF a.tag # "ok"
         THEN [tag |-> a.tag, data |-> [art |-> <<>>, art_indices |-> EmptyMap]]
         ELSE ParseLoop(Tail(lines), ParseEntry(d, a.art))

\* Data::parse: the registry, or the failure of the first line that fails.
Parse(text) == ParseLoop(Lines(text), [art |-> <<>>, art_indices |-> EmptyMap])

\* The body of the loop of Data::reload for one parsed entry.
ReloadEntryNoCheck(d, a) ==
    [art |-> Append(d.art, a),
     art_indices |-> MapInsert(d.art_indices, a.url, Len(d.art))]

ReloadEntryFront(d, a) ==
    IF a.url \notin DOMAIN d.art_indices
    THEN [art |-> <<a>> \o d.art,
          art_indices |-> MapInsert(d.art_indices, a.url, 0)]
    ELSE d

ReloadEntry(d, a) ==
    IF a.url \notin DOMAIN d.art_indices
    THEN [art |-> Append(d.art, a),
          art_indices |-> MapInsert(d.art_indices, a.url, Len(d.art))]
    ELSE d

RECURSIVE ReloadLoopSkip(_, _)
ReloadLoopSkip(lines, d) ==
    IF lines = <<>> THEN [tag |-> "ok", data |-> d]
    ELSE LET a == ArtFromStr(Head(lines)) IN
         IF a.tag # "ok"
         THEN [tag |-> a.tag, data |-> ReloadLoopSkip(Tail(lines), d).data]
         ELSE ReloadLoopSkip(Tail(lines), ReloadEntry(d, a.art))

RECURSIVE ReloadLoop(_, _)
ReloadLoop(lines, d) ==
    IF lines = <<>> THEN [tag |-> "ok", data |-> d]
    ELSE LET a == ArtFromStr(Head(lines)) IN
         IF a.tag # "ok" THEN [tag |-> a.tag, data |-> d]
         ELSE ReloadLoop(Tail(lines), ReloadEntry(d, a.art))

\* Data::reload: self is mutated in place, so what was appended before a
\* failing line stays.
Reload(d, text) == ReloadLoop(Lines(text), d)

\* Data::pick_random_art: the entries fastrand::usize(0..len) can select;
\* on an empty registry the range is empty and fastrand panics.
PickRandomArt(d) ==
    IF Len(d.art) = 0 THEN [tag |-> "panic", arts |-> {}]
    ELSE [tag |-> "ok", arts |-> {d.art[no + 1] : no \in 0..(Len(d.art) - 1)}]

\* ------------------------------------------------------------------ main.rs
\* FetchedLink, and the results of a handler: Ok(link), Err(AppError), or a
\* panic that unwinds the task.
NoLink == [image_url |-> None, new_source |-> None]

Ok(link) == [tag |-> "ok", link |-> link, msg |-> None]
Err(msg) == [tag |-> "err", link |-> NoLink, msg |-> msg]
Panic(msg) == [tag |-> "panic", link |-> NoLink, msg |-> msg]
NoResult == [tag |-> "none", link |-> NoLink, msg |-> None]

NoArt == [url |-> None, kind |-> None]

\* form_urlencoded::parse on the query strings of the model.
FormUrlencodedParse(q) ==
    CASE q = "page=post&s=view&id=1" ->
            << <<"page", "post">>, <<"s", "view">>, <<"id", "1">> >>
      [] q = "page=post&s=view" -> << <<"page", "post">>, <<"s", "view">> >>
      [] OTHER -> << >>

\* The loop over the query pairs: the value of the last pair named id.
RECURSIVE IdOf(_, _)
IdOf(pairs, id) ==
    IF pairs = << >> THEN id
    ELSE IdOf(Tail(pairs), IF Head(pairs)[1] = "id" THEN Head(pairs)[2] ELSE id)

\* format!("{link}?format=webp")
WithWebp(link) ==
    CASE link = LocA -> "https://pbs.twimg.com/media/A.jpg?format=webp"
      [] link = LocB -> "https://pbs.twimg.com/media/B.jpg?format=webp"
      [] OTHER -> None

\* The mirror URL: https://d.fxtwitter.com with the path and query of the URL.
FxUrl(s) ==
    CASE s = Tw1 -> "https://d.fxtwitter.com/pm/status/1"
      [] s = X1 -> "https://d.fxtwitter.com/pm/status/2"
      [] s = SrcTw -> "https://d.fxtwitter.com/artist/status/9"
      [] OTHER -> None

\* format!("https://safebooru.org/index.php?page=dapi&s=post&q=index&json=1&id={id}")
ApiUrl(id) ==
    CASE id = "1" -> "https://safebooru.org/index.php?page=dapi&s=post&q=index&json=1&id=1"
      [] OTHER -> None

\* format!("{}://{}{}", scheme, host, path) and format!("{}://{}/{}", ...)
FSampleUrl(s) ==
    CASE s = SampleQ -> "https://safebooru.org/samples/1/sample_x.jpg"
      [] OTHER -> None

SSampleUrl(s) ==
    CASE s = SampleQ -> "https://safebooru.org//samples/1/sample_x.jpg"
      [] OTHER -> None

\* The last path segment up to its first '_', under pixiv.net/en/artworks/.
PixivRewrite(s) ==
    CASE s = SrcPximg -> PixivArtworks
      [] OTHER -> None

\* str::contains on the hosts of the model.
HostContains(host, pat) ==
    CASE pat = "twitter.com" -> host \in {"twitter.com"}
      [] pat = "x.com" -> host \in {"x.com"}
      [] OTHER -> FALSE

\* What the mirror can answer to the one GET of _fetch_twitter_image_link:
\* a transport error, an error status, no Location header, a Location that
\* is not visible ASCII, or a Location.
TwitterOutcomes(locs) ==
    {[kind |-> k, loc |-> None] : k \in {"transport", "status", "noloc", "badloc"}}
        \cup {[kind |-> "loc", loc |-> l] : l \in locs}

FetchTwitterImageLinkRaw(o) ==
    CASE o.kind = "transport" -> Err("transport")
      [] o.kind = "status" -> Err("status")
      [] o.kind = "noloc" -> Err("did not return an image location")
      [] o.kind = "badloc" -> Err("to_str")
      [] OTHER -> Ok([image_url |-> o.loc, new_source |-> None])

\* _fetch_twitter_image_link, given the mirror's answer.
FetchTwitterImageLink(o) ==
    CASE o.kind = "transport" -> Err("transport")
      [] o.kind = "status" -> Err("status")
      [] o.kind = "noloc" -> Err("did not return an image location")
      [] o.kind = "badloc" -> Err("to_str")
      [] OTHER -> Ok([image_url |-> WithWebp(o.loc), new_source |-> None])

\* The source_url of _fetch_safebooru_image_link from the first post: absent
\* when the field is missing, not a string or not a URI; rewritten when its
\* host is Pixiv's image CDN.
SourceUrl(post) ==
    IF post.source \in {None, NonStr} THEN None
    ELSE LET src == UriFromStr(post.source) IN
         IF ~src.ok THEN None
         ELSE IF src.host = "i.pximg.net" THEN PixivRewrite(post.source)
         ELSE post.source

\* ------------------------------------------------------------------- state
VARIABLES
    art,            \* Data.art, the Vec<Art> inside InternalAppState.data
    art_indices,    \* Data.art_indices
    parsed,         \* how Data::parse ended: "none" before it ran
    initial,        \* the entries Data::parse returned
    poisoned,       \* whether the Mutex around Data is poisoned
    reloader,       \* the SIGUSR2 thread: "waiting" or "dead"
    reloadRes,      \* how the last Data::reload of that thread ended
    direct_links,   \* InternalAppState.direct_links
    req,            \* the show_art tasks
    last,           \* the last call made on Data directly (parse, reload)
    hist            \* the outbound requests of the resolution under watch

vars == <<art, art_indices, parsed, initial, poisoned, reloader, reloadRes,
          direct_links, req, last, hist>>

Reqs == 1..MaxRequests

Data == [art |-> art, art_indices |-> art_indices]

EmptyData == [art |-> << >>, art_indices |-> EmptyMap]

\* A show_art task: where it is suspended (pc) and its locals. calls counts
\* the outbound requests it issued, out is the URL of the one in flight;
\* cached records whether direct_links held the picked URL when it was
\* picked; guard is whether the task holds the MutexGuard of data.
IdleReq ==
    [pc |-> "idle", art |-> NoArt, attempts |-> 0, src |-> None,
     sample |-> None, fok |-> FALSE, calls |-> 0, result |-> NoResult,
     cached |-> FALSE, out |-> None, guard |-> FALSE]

\* last: the call (op), its text, how it ended (res), the Data before it
\* (pre), and whether it repeats the text of the reload before it (again).
NoLast ==
    [op |-> "none", text |-> << >>, res |-> "none", pre |-> EmptyData,
     again |-> FALSE]

\* ------------------------------------------------- the resolvers, by steps
\* The task issues an outbound request and awaits its response.
Suspend(rec, pc, url) == [rec EXCEPT !.pc = pc, !.calls = @ + 1, !.out = url]

\* The resolver returns (or unwinds): its locals are dropped.
Return(rec, res) ==
    [rec EXCEPT !.pc = "resolved", !.result = res, !.attempts = 0,
                !.src = None, !.sample = None, !.fok = FALSE, !.out = None]

\* _fetch_safebooru_image_link from the sample_url field to the first probe.
SampleStep(rec) ==
    IF rec.sample = None
    THEN Return(rec, Err("safebooru did not return sample url"))
    ELSE IF rec.sample = NonStr
    THEN Return(rec, Err("safebooru sample url wasnt a string"))
    ELSE LET u == UriFromStr(rec.sample) IN
         IF ~u.ok THEN Return(rec, Err("safebooru sample url was not valid"))
         ELSE IF u.scheme = None \/ u.host = None
         THEN Return(rec, Panic("unwrap on None"))
         ELSE Suspend(rec, "sb_probe1", FSampleUrl(rec.sample))

\* _fetch_safebooru_image_link once the API answered with posts.
AfterApi(rec, posts) ==
    IF posts = << >> THEN Return(rec, Panic("index out of bounds"))
    ELSE LET post == posts[1]
             src == SourceUrl(post)
             rec1 == [rec EXCEPT !.src = src, !.sample = post.sample_url]
         IN  IF src = None THEN SampleStep(rec1)
             ELSE LET h == UriFromStr(src).host IN
                  IF h = None THEN Return(rec1, Panic("unwrap on None"))
                  ELSE IF HostContains(h, "twitter.com") \/ HostContains(h, "x.com")
                  THEN Suspend(rec1, "sb_tw", FxUrl(src))
                  ELSE SampleStep(rec1)

\* The error handler of FutureRetry, given the error e of the attempt that
\* failed: forward e once attempts > 4, else count the attempt and repeat
\* try_request (the same URL).
RetryPolicyOneMore(rec, e) ==
    IF rec.attempts > 5 THEN Return(rec, Err(e))
    ELSE Suspend([rec EXCEPT !.attempts = @ + 1], "sb_api", rec.out)

RetryPolicy(rec, e) ==
    IF rec.attempts > 4 THEN Return(rec, Err(e))
    ELSE Suspend([rec EXCEPT !.attempts = @ + 1], "sb_api", rec.out)

\* The start of _fetch_safebooru_image_link: the id of the query, then the
\* first API request.
FetchSafebooruStart(rec) ==
    LET u == UriFromStr(rec.art.url) IN
    IF u.query = None THEN Return(rec, Panic("unwrap on None"))
    ELSE IF IdOf(FormUrlencodedParse(u.query), "") = ""
    THEN Return(rec, Err("no id?"))
    ELSE Suspend([rec EXCEPT !.attempts = 0], "sb_api",
                 ApiUrl(IdOf(FormUrlencodedParse(u.query), "")))

AfterSourceTwitterStrict(rec, o) ==
    LET t == FetchTwitterImageLink(o) IN
    IF t.tag = "ok"
    THEN Return(rec, Ok([t.link EXCEPT !.new_source = rec.src]))
    ELSE Return(rec, t)

AfterSourceTwitterAgain(rec, o) ==
    LET t == FetchTwitterImageLink(o) IN
    IF t.tag = "ok"
    THEN Return(rec, Ok([t.link EXCEPT !.new_source = rec.src]))
    ELSE IF rec.calls < 12 THEN Suspend(rec, "sb_tw", rec.out)
    ELSE SampleStep(rec)

\* The Twitter attempt inside _fetch_safebooru_image_link, given the
\* mirror's answer: its link with new_source set, or fall through.
AfterSourceTwitter(rec, o) ==
    LET t == FetchTwitterImageLink(o) IN
    IF t.tag = "ok"
    THEN Return(rec, Ok([t.link EXCEPT !.new_source = rec.src]))
    ELSE SampleStep(rec)

SampleChoiceSecondFirst(rec, sok) ==
    Return(rec, Ok([image_url |-> IF sok THEN SSampleUrl(rec.sample)
                                  ELSE IF rec.fok THEN FSampleUrl(rec.sample)
                                  ELSE rec.sample,
                    new_source |-> rec.src]))

\* The choice between the two probed forms and the sample_url itself.
SampleChoice(rec, sok) ==
    Return(rec, Ok([image_url |-> IF rec.fok THEN FSampleUrl(rec.sample)
                                  ELSE IF sok THEN SSampleUrl(rec.sample)
                                  ELSE rec.sample,
                    new_source |-> rec.src]))

\* show_art: the resolver of the entry's kind.
Dispatch(rec) ==
    IF rec.art.kind = "Twitter" THEN Suspend(rec, "tw_get", FxUrl(rec.art.url))
    ELSE FetchSafebooruStart(rec)

\* DashMap::get
CacheGetMiss(links, url) == [some |-> FALSE, v |-> NoLink]

CacheGet(links, url) ==
    IF url \in DOMAIN links THEN [some |-> TRUE, v |-> links[url]]
    ELSE [some |-> FALSE, v |-> NoLink]

\* show_art after the resolver: ? returns its error, a success is inserted
\* under the entry's URL.
CacheAfterAlways(links, rec) == MapInsert(links, rec.art.url, rec.result.link)

CacheAfterFirstWins(links, rec) ==
    IF rec.result.tag = "ok" /\ rec.art.url \notin DOMAIN links
    THEN MapInsert(links, rec.art.url, rec.result.link)
    ELSE links

CacheAfter(links, rec) ==
    IF rec.result.tag = "ok"
    THEN MapInsert(links, rec.art.url, rec.result.link)
    ELSE links

\* One step of task r up to its next await, or to its response.
Step(r, rec) ==
    /\ req' = [req EXCEPT ![r] = IF rec.pc = "resolved"
                                 THEN [rec EXCEPT !.pc = "done"] ELSE rec]
    /\ direct_links' = IF rec.pc = "resolved" THEN CacheAfter(direct_links, rec)
                       ELSE direct_links

\* ------------------------------------------------------------ environments
\* What the outside world can answer: the Location values of the mirror and
\* the bodies (arrays of posts) of the Safebooru API.
Sources == {None, NonStr, Blank, SrcTw, X1, SrcPximg, SrcOther, NoHost}

Samples == {None, NonStr, SampleBad, SampleRel, SampleQ}

\* How an attempt of try_request can fail: transport, error status, a body
\* that is not a JSON array of objects.
ApiErrors == {"transport", "status", "decode"}

FullEnv ==
    [locs |-> {LocA, LocB},
     posts |-> {<< >>} \cup
               {<<[source |-> s, sample_url |-> m]>> : s \in Sources, m \in Samples}]

SmallEnv ==
    [locs |-> {LocA, LocB},
     posts |-> {<<[source |-> None, sample_url |-> SampleQ]>>,
                <<[source |-> SrcTw, sample_url |-> None]>>}]

\* ----------------------------------------------------------------- actions
Init ==
    /\ art = << >>
    /\ art_indices = EmptyMap
    /\ parsed = "none"
    /\ initial = << >>
    /\ poisoned = FALSE
    /\ reloader = "none"
    /\ reloadRes = "none"
    /\ direct_links = EmptyMap
    /\ req = [r \in Reqs |-> IdleReq]
    /\ last = NoLast
    /\ hist = << >>

\* The task after the statement of line 66 with entry a: the guard is a
\* temporary of the statement and is dropped at its end.
PickedHoldingGuard(rec, a, links) ==
    [rec EXCEPT !.pc = "picked", !.art = a, !.cached = (a.url \in DOMAIN links),
                !.guard = TRUE]

Picked(rec, a, links) ==
    [rec EXCEPT !.pc = "picked", !.art = a, !.cached = (a.url \in DOMAIN links),
                !.guard = FALSE]

\* Mutex::lock returns once no other thread holds the guard.
LockFree(r) == \A o \in Reqs \ {r} : ~req[o].guard

\* main: read the registry file, Data::parse(..).unwrap(), spawn the reload
\* thread, serve. A failed parse ends the process.
StartupFrom(texts) ==
    /\ parsed = "none"
    /\ \E text \in texts :
          LET r == Parse(text) IN
          /\ parsed' = r.tag
          /\ art' = r.data.art
          /\ art_indices' = r.data.art_indices
          /\ initial' = r.data.art
          /\ reloader' = IF r.tag = "ok" THEN "waiting" ELSE "none"
    /\ UNCHANGED <<poisoned, reloadRes, direct_links, req, last, hist>>

Startup == StartupFrom(FileTexts)

\* The SIGUSR2 thread: read the file, lock().unwrap(), reload(..).unwrap().
\* unwrap panics on a poisoned lock and on a failed reload; the second
\* unwinds while the guard is alive, which poisons the Mutex.
SignalReloadFrom(texts) ==
    /\ parsed = "ok"
    /\ reloader = "waiting"
    /\ LockFree(0)
    /\ \E text \in texts :
          IF poisoned
          THEN /\ reloader' = "dead"
               /\ UNCHANGED <<art, art_indices, poisoned, reloadRes>>
          ELSE LET r == Reload(Data, text) IN
               /\ art' = r.data.art
               /\ art_indices' = r.data.art_indices
               /\ reloadRes' = r.tag
               /\ reloader' = IF r.tag = "ok" THEN "waiting" ELSE "dead"
               /\ poisoned' = (r.tag # "ok")
    /\ UNCHANGED <<parsed, initial, direct_links, req, last, hist>>

SignalReload == SignalReloadFrom(FileTexts)

\* show_art, line 66: lock().unwrap().pick_random_art().clone()
Pick(r) ==
    /\ parsed = "ok"
    /\ req[r].pc = "idle"
    /\ LockFree(r)
    /\ IF poisoned
       THEN /\ req' = [req EXCEPT ![r] = [@ EXCEPT !.pc = "done",
                                                   !.result = Panic("PoisonError")]]
            /\ UNCHANGED poisoned
       ELSE LET p == PickRandomArt(Data) IN
            IF p.tag = "panic"
            THEN /\ req' = [req EXCEPT ![r] = [@ EXCEPT !.pc = "done",
                                                        !.result = Panic("empty range")]]
                 /\ poisoned' = TRUE
            ELSE /\ \E a \in p.arts :
                       req' = [req EXCEPT ![r] = Picked(@, a, direct_links)]
                 /\ UNCHANGED poisoned
    /\ UNCHANGED <<art, art_indices, parsed, initial, reloader, reloadRes,
                   direct_links, last, hist>>

\* show_art, lines 67-74: the cached link, or the first step of the resolver.
Lookup(r) ==
    /\ req[r].pc = "picked"
    /\ LET g == CacheGet(direct_links, req[r].art.url) IN
       IF g.some
       THEN /\ req' = [req EXCEPT ![r] = [@ EXCEPT !.pc = "done", !.result = Ok(g.v)]]
            /\ UNCHANGED direct_links
       ELSE Step(r, Dispatch(req[r]))
    /\ UNCHANGED <<art, art_indices, parsed, initial, poisoned, reloader,
                   reloadRes, last, hist>>

\* The mirror answers o to the GET of _fetch_twitter_image_link.
TwGot(r, o) ==
    /\ req[r].pc = "tw_get"
    /\ Step(r, Return(req[r], FetchTwitterImageLink(o)))
    /\ UNCHANGED <<art, art_indices, parsed, initial, poisoned, reloader, reloadRes, last>>

TwGetDone(r, E) ==
    /\ \E o \in TwitterOutcomes(E.locs) : TwGot(r, o)
    /\ UNCHANGED hist

\* An attempt of try_request succeeds: the API answered an array of posts.
SbApiGot(r, posts) ==
    /\ req[r].pc = "sb_api"
    /\ Step(r, AfterApi(req[r], posts))
    /\ UNCHANGED <<art, art_indices, parsed, initial, poisoned, reloader, reloadRes, last>>

SbApiOk(r, E) ==
    /\ \E posts \in E.posts : SbApiGot(r, posts)
    /\ UNCHANGED hist

\* An attempt of try_request fails with error e.
SbApiFailed(r, e) ==
    /\ req[r].pc = "sb_api"
    /\ Step(r, RetryPolicy(req[r], e))
    /\ UNCHANGED <<art, art_indices, parsed, initial, poisoned, reloader, reloadRes, last>>

SbApiFail(r) ==
    /\ \E e \in ApiErrors : SbApiFailed(r, e)
    /\ UNCHANGED hist

\* The mirror answers o to the GET made for a post whose source is on
\* Twitter.
SbTwGot(r, o) ==
    /\ req[r].pc = "sb_tw"
    /\ Step(r, AfterSourceTwitter(req[r], o))
    /\ UNCHANGED <<art, art_indices, parsed, initial, poisoned, reloader, reloadRes, last>>

SbTwDone(r, E) ==
    /\ \E o \in TwitterOutcomes(E.locs) : SbTwGot(r, o)
    /\ UNCHANGED hist

\* The first probe (scheme://host path) ends; the second is issued.
SbProbe1Got(r, fok) ==
    /\ req[r].pc = "sb_probe1"
    /\ Step(r, Suspend([req[r] EXCEPT !.fok = fok], "sb_probe2",
                       SSampleUrl(req[r].sample)))
    /\ UNCHANGED <<art, art_indices, parsed, initial, poisoned, reloader, reloadRes, last>>

SbProbe1Done(r) ==
    /\ \E fok \in BOOLEAN : SbProbe1Got(r, fok)
    /\ UNCHANGED hist

\* The second probe (scheme://host/ path) ends.
SbProbe2Got(r, sok) ==
    /\ req[r].pc = "sb_probe2"
    /\ Step(r, SampleChoice(req[r], sok))
    /\ UNCHANGED <<art, art_indices, parsed, initial, poisoned, reloader, reloadRes, last>>

SbProbe2Done(r) ==
    /\ \E sok \in BOOLEAN : SbProbe2Got(r, sok)
    /\ UNCHANGED hist

\* The response (or the unwinding) of the task is over.
Responded(r) ==
    /\ req[r].pc = "done"
    /\ req' = [req EXCEPT ![r] = IdleReq]
    /\ UNCHANGED <<art, art_indices, parsed, initial, poisoned, reloader,
                   reloadRes, direct_links, last>>

Respond(r) == Responded(r) /\ UNCHANGED hist

\* The service: any number of tasks in flight, the reload thread beside them.
Next ==
    \/ StartupFrom(OneLineTexts)
    \/ SignalReloadFrom(OneLineTexts)
    \/ \E r \in Reqs : Pick(r)
    \/ \E r \in Reqs : Lookup(r)
    \/ \E r \in Reqs : TwGetDone(r, SmallEnv)
    \/ \E r \in Reqs : SbApiOk(r, SmallEnv)
    \/ \E r \in Reqs : SbApiFail(r)
    \/ \E r \in Reqs : SbTwDone(r, SmallEnv)
    \/ \E r \in Reqs : SbProbe1Done(r)
    \/ \E r \in Reqs : SbProbe2Done(r)
    \/ \E r \in Reqs : Respond(r)

Spec == Init /\ [][Next]_vars

\* ------------------------------------------------- tasks racing on the cache
\* The service with tasks in flight at once and the reload thread beside
\* them, in a world where the mirror answers anything and the API answers a
\* post without source and sample_url.
RaceEnv ==
    [locs |-> {LocA, LocB},
     posts |-> {<<[source |-> None, sample_url |-> None]>>}]

NextRace ==
    \/ StartupFrom(OneLineTexts)
    \/ SignalReloadFrom(OneLineTexts)
    \/ \E r \in Reqs : Pick(r)
    \/ \E r \in Reqs : Lookup(r)
    \/ \E r \in Reqs : TwGetDone(r, RaceEnv)
    \/ \E r \in Reqs : SbApiOk(r, RaceEnv)
    \/ \E r \in Reqs : Respond(r)

SpecRace == Init /\ [][NextRace]_vars

\* The service with requests that do not overlap: a task starts only when no
\* other is in flight, so one task slot serves them all.
PickAlone(r) ==
    /\ \A o \in Reqs \ {r} : req[o].pc = "idle"
    /\ Pick(r)

NextSeq ==
    \/ Startup
    \/ SignalReload
    \/ PickAlone(1)
    \/ Lookup(1)
    \/ TwGetDone(1, FullEnv)
    \/ SbApiOk(1, FullEnv)
    \/ SbApiFail(1)
    \/ SbTwDone(1, FullEnv)
    \/ SbProbe1Done(1)
    \/ SbProbe2Done(1)
    \/ Respond(1)

SpecSeq == Init /\ [][NextSeq]_vars

\* ------------------------------------------------------ Data on its own
\* A Data built by Data::parse from any text, then reloaded with any texts.
InitData ==
    /\ \E text \in Texts :
          LET r == Parse(text) IN
          /\ parsed = r.tag
          /\ art = r.data.art
          /\ art_indices = r.data.art_indices
          /\ initial = r.data.art
          /\ last = [op |-> "parse", text |-> text, res |-> r.tag,
                     pre |-> EmptyData, again |-> FALSE]
    /\ poisoned = FALSE
    /\ reloader = "none"
    /\ reloadRes = "none"
    /\ direct_links = EmptyMap
    /\ req = [r \in Reqs |-> IdleReq]
    /\ hist = << >>

\* data.reload(text) on the Data that parse returned, for a new text.
DataReload ==
    /\ parsed = "ok"
    /\ last.op \in {"parse", "none"}
    /\ \E text \in Texts :
          LET r == Reload(Data, text) IN
          /\ art' = r.data.art
          /\ art_indices' = r.data.art_indices
          /\ last' = [op |-> "reload", text |-> text, res |-> r.tag,
                      pre |-> Data, again |-> FALSE]
    /\ UNCHANGED <<parsed, initial, poisoned, reloader, reloadRes, direct_links,
                   req, hist>>

\* data.reload(text) once more, with the text of the reload just made.
DataReloadAgain ==
    /\ parsed = "ok"
    /\ last.op = "reload"
    /\ LET r == Reload(Data, last.text) IN
       /\ art' = r.data.art
       /\ art_indices' = r.data.art_indices
       /\ last' = [op |-> "reload", text |-> last.text, res |-> r.tag,
                   pre |-> Data, again |-> TRUE]
    /\ UNCHANGED <<parsed, initial, poisoned, reloader, reloadRes, direct_links,
                   req, hist>>

\* The record of the last call is dropped; the next reload takes a new text.
DataNext ==
    /\ last.op = "reload"
    /\ last' = NoLast
    /\ UNCHANGED <<art, art_indices, parsed, initial, poisoned, reloader,
                   reloadRes, direct_links, req, hist>>

NextData == DataReload \/ DataReloadAgain \/ DataNext

SpecData == InitData /\ [][NextData]_vars

\* -------------------------------------------- one resolution under watch
\* The service started on a registry file of one line, serving one request
\* at a time. hist records the outbound requests of the request being served,
\* in the order they were answered: the suspension point (call), the URL
\* requested, and what came back (kind, with loc or posts).
ResolveLines == {Tw1, Sb1, SbNoId, SbNoQuery}

Event(rec, kind, loc, posts) ==
    [call |-> rec.pc, url |-> rec.out, kind |-> kind, loc |-> loc, posts |-> posts]

InitResolve ==
    /\ \E line \in ResolveLines :
          LET r == Parse(<<line>>) IN
          /\ parsed = r.tag
          /\ art = r.data.art
          /\ art_indices = r.data.art_indices
          /\ initial = r.data.art
    /\ poisoned = FALSE
    /\ reloader = "waiting"
    /\ reloadRes = "none"
    /\ direct_links = EmptyMap
    /\ req = [r \in Reqs |-> IdleReq]
    /\ last = NoLast
    /\ hist = << >>

WatchTwGet ==
    \E o \in TwitterOutcomes(FullEnv.locs) :
        /\ TwGot(1, o)
        /\ hist' = Append(hist, Event(req[1], o.kind, o.loc, << >>))

WatchSbApiOk ==
    \E posts \in FullEnv.posts :
        /\ SbApiGot(1, posts)
        /\ hist' = Append(hist, Event(req[1], "posts", None, posts))

WatchSbApiFail ==
    \E e \in ApiErrors :
        /\ SbApiFailed(1, e)
        /\ hist' = Append(hist, Event(req[1], e, None, << >>))

WatchSbTw ==
    \E o \in TwitterOutcomes(FullEnv.locs) :
        /\ SbTwGot(1, o)
        /\ hist' = Append(hist, Event(req[1], o.kind, o.loc, << >>))

WatchSbProbe1 ==
    \E fok \in BOOLEAN :
        /\ SbProbe1Got(1, fok)
        /\ hist' = Append(hist, Event(req[1], IF fok THEN "ok" ELSE "fail", None, << >>))

WatchSbProbe2 ==
    \E sok \in BOOLEAN :
        /\ SbProbe2Got(1, sok)
        /\ hist' = Append(hist, Event(req[1], IF sok THEN "ok" ELSE "fail", None, << >>))

WatchRespond == Responded(1) /\ hist' = << >>

NextResolve ==
    \/ PickAlone(1)
    \/ Lookup(1)
    \/ WatchTwGet
    \/ WatchSbApiOk
    \/ WatchSbApiFail
    \/ WatchSbTw
    \/ WatchSbProbe1
    \/ WatchSbProbe2
    \/ WatchRespond

SpecResolve == InitResolve /\ [][NextResolve]_vars

\* Every outbound request is answered, and a task that is not awaiting an
\* answer goes on.
Answered ==
    \/ WatchTwGet
    \/ WatchSbApiOk
    \/ WatchSbApiFail
    \/ WatchSbTw
    \/ WatchSbProbe1
    \/ WatchSbProbe2

SpecResolveFair ==
    /\ SpecResolve
    /\ WF_vars(Answered)
    /\ WF_vars(Lookup(1))

\* ================================================================ claims
\* The fixed host table of the registry format, and the lines it accepts.
HostTable == [h \in {"twitter.com", "safebooru.org"} |->
                 IF h = "twitter.com" THEN "Twitter" ELSE "Safebooru"]

Recognized(line) ==
    /\ UriFromStr(line).ok
    /\ UriFromStr(line).host \in DOMAIN HostTable

IsPrefix(s, t) == Len(s) <= Len(t) /\ SubSeq(t, 1, Len(s)) = s

\* The tasks that ended, by how they ended.
Ended(r, tag) == req[r].pc = "done" /\ req[r].result.tag = tag

\* ---------------------------------------------------------------------- C1
\* C1: with requests that do not overlap, a link stored in direct_links
\* stays stored and unchanged, and a request that picks a URL already stored
\* issues no outbound call, never enters a resolver, and answers with the
\* stored link.
C1_StoredLinkKept ==
    \A u \in DOMAIN direct_links :
        u \in DOMAIN direct_links' /\ direct_links'[u] = direct_links[u]

C1_ServedFromCache ==
    \A r \in Reqs :
        (req[r].pc # "idle" /\ req[r].cached) =>
            /\ req[r].calls = 0
            /\ req[r].pc \in {"picked", "done"}
            /\ req[r].pc = "done" =>
                  req[r].result = Ok(direct_links[req[r].art.url])

C1_CachedNoOutbound == [][C1_StoredLinkKept]_vars /\ []C1_ServedFromCache

\* A request served from the cache, after a reload added entries.
C1_Witness ==
    \E r \in Reqs :
        /\ Ended(r, "ok")
        /\ req[r].cached
        /\ reloadRes = "ok"
        /\ Len(art) > Len(initial)

\* ---------------------------------------------------------------------- C2
\* C2: a request whose resolver returned an error ends with that error, a
\* request that does not end with a link leaves direct_links as it was,
\* direct_links changes only by the insert of the link a request just
\* resolved, under the URL it picked, and no stored value is an error.
C2_FailureLeavesCache ==
    \A r \in Reqs :
        (req[r].pc \notin {"idle", "done"} /\ req'[r].pc = "done"
            /\ req'[r].result.tag # "ok") => direct_links' = direct_links

C2_OnlySuccessInserted ==
    direct_links' # direct_links =>
        \E r \in Reqs :
            /\ req[r].pc \notin {"idle", "picked", "done"}
            /\ req'[r].pc = "done"
            /\ req'[r].result.tag = "ok"
            /\ direct_links' =
                  MapInsert(direct_links, req[r].art.url, req'[r].result.link)

C2_StoredAreLinks ==
    \A u \in DOMAIN direct_links :
        /\ direct_links[u].image_url # None
        /\ direct_links[u] # NoLink

C2_NoErrorCached ==
    /\ [][C2_FailureLeavesCache /\ C2_OnlySuccessInserted]_vars
    /\ []C2_StoredAreLinks

\* A resolver issued calls and returned an error; nothing is stored for the
\* picked URL.
C2_Witness ==
    \E r \in Reqs :
        /\ Ended(r, "err")
        /\ req[r].calls > 0
        /\ req[r].art.url \notin DOMAIN direct_links

\* ---------------------------------------------------------------------- C3
\* C3: a reload with the text of the reload made just before it leaves the
\* entry sequence (so its length) and the URL-to-index map as they were.
C3_ReloadIdempotent ==
    (last.op = "reload" /\ last.again) => Data = last.pre

\* The second of two reloads with a text one of whose URLs a reload added.
C3_Witness ==
    /\ last.op = "reload"
    /\ last.again
    /\ \E i \in (Len(initial) + 1)..Len(art) :
          \E k \in 1..Len(Lines(last.text)) : Lines(last.text)[k] = art[i].url

\* ---------------------------------------------------------------------- C4
\* C4: whether reload succeeds or fails, the entries before it are a prefix
\* of the entries after it, and every URL known before is known after, at
\* the index it had.
C4_ReloadMonotonic ==
    last.op = "reload" =>
        /\ IsPrefix(last.pre.art, art)
        /\ \A u \in DOMAIN last.pre.art_indices :
              /\ u \in DOMAIN art_indices
              /\ art_indices[u] = last.pre.art_indices[u]

\* A reload that failed after it appended to a registry that was not empty.
C4_Witness ==
    /\ last.op = "reload"
    /\ last.res # "ok"
    /\ Len(last.pre.art) > 0
    /\ Len(art) > Len(last.pre.art)

\* ---------------------------------------------------------------------- C5
\* The map and the sequence agree: every mapped index is in range and holds
\* an entry with that URL, and the URL of every entry is a key.
Consistent(d) ==
    /\ \A u \in DOMAIN d.art_indices :
          /\ d.art_indices[u] \in 0..(Len(d.art) - 1)
          /\ d.art[d.art_indices[u] + 1].url = u
    /\ \A i \in 1..Len(d.art) : d.art[i].url \in DOMAIN d.art_indices

\* C5 as stated: after parse of an accepted text and any reloads, the map
\* and the sequence agree and no URL occupies two positions.
C5_ConsistentAndUnique ==
    parsed = "ok" =>
        /\ Consistent(Data)
        /\ \A i, j \in 1..Len(art) : art[i].url = art[j].url => i = j

\* C5 as amended: the map and the sequence agree, the index of a URL being
\* its last position; the entries parse returned stay in front, every line
\* of the initial text at its own position; an entry appended by reload has
\* a URL that occupies no other position.
C5_ConsistentReloadUnique ==
    parsed = "ok" =>
        /\ Consistent(Data)
        /\ \A u \in DOMAIN art_indices :
              \A i \in 1..Len(art) : art[i].url = u => i <= art_indices[u] + 1
        /\ IsPrefix(initial, art)
        /\ \A i \in (Len(initial) + 1)..Len(art) :
              \A j \in 1..Len(art) : art[j].url = art[i].url => j = i

\* The initial text repeated a URL, and a reload appended an entry.
C5_Witness ==
    /\ parsed = "ok"
    /\ \E i, j \in 1..Len(initial) : i # j /\ initial[i].url = initial[j].url
    /\ Len(art) > Len(initial)

\* ---------------------------------------------------------------------- C6
UnknownHost(line) ==
    /\ UriFromStr(line).ok
    /\ UriFromStr(line).host # None
    /\ UriFromStr(line).host \notin DOMAIN HostTable

\* C6: when every line of the text is a URL with a host of the table, parse
\* succeeds with one entry per line, in line order, each of the kind the
\* table gives for its host; a text with a line whose host is not in the
\* table is not accepted, and parse returns the error when the lines before
\* that line are recognized.
C6_ParseByHostTable ==
    last.op = "parse" =>
        LET lines == Lines(last.text) IN
        /\ (\A i \in 1..Len(lines) : Recognized(lines[i])) =>
              /\ parsed = "ok"
              /\ Len(art) = Len(lines)
              /\ \A i \in 1..Len(lines) :
                    /\ art[i].url = lines[i]
                    /\ art[i].kind = HostTable[UriFromStr(lines[i]).host]
        /\ \A k \in 1..Len(lines) :
              UnknownHost(lines[k]) =>
                  /\ parsed # "ok"
                  /\ (\A j \in 1..(k - 1) : Recognized(lines[j])) => parsed = "err"

\* parse accepted a text of three lines with both kinds of host.
C6_Witness ==
    /\ last.op = "parse"
    /\ parsed = "ok"
    /\ Len(art) = MaxSegs
    /\ \E i, j \in 1..Len(art) : art[i].kind = "Twitter" /\ art[j].kind = "Safebooru"

\* ---------------------------------------------------------------------- C7
\* C7: a text whose non-empty lines are all recognized URLs, with blank
\* lines between them, is accepted by parse and by reload, and parse yields
\* one entry per non-empty line.
C7_BlankLinesSeparate ==
    (/\ last.op \in {"parse", "reload"}
     /\ Len(last.text) >= 3
     /\ last.text[1] # Blank
     /\ last.text[Len(last.text)] # Blank
     /\ \E i \in 1..Len(last.text) : last.text[i] = Blank
     /\ \A i \in 1..Len(last.text) :
           last.text[i] # Blank => Recognized(last.text[i]))
    => /\ last.res = "ok"
       /\ last.op = "parse" =>
             Len(art) = Cardinality({i \in 1..Len(last.text) : last.text[i] # Blank})

\* ---------------------------------------------------------------------- C8
\* The entries a reload of the lines appends to a registry that knows the
\* URLs of known: one per URL not seen before, in line order.
RECURSIVE NewEntries(_, _)
NewEntries(lines, known) ==
    IF lines = << >> THEN << >>
    ELSE IF Head(lines) \in known THEN NewEntries(Tail(lines), known)
    ELSE <<[url |-> Head(lines), kind |-> HostTable[UriFromStr(Head(lines)).host]]>>
             \o NewEntries(Tail(lines), known \cup {Head(lines)})

KnownUrls(d) == {d.art[i].url : i \in 1..Len(d.art)}

\* The first line that is not a recognized URL, 0 when there is none.
FirstFailing(lines) ==
    IF \E k \in 1..Len(lines) : ~Recognized(lines[k])
    THEN CHOOSE k \in 1..Len(lines) :
            ~Recognized(lines[k]) /\ \A j \in 1..(k - 1) : Recognized(lines[j])
    ELSE 0

\* Art::from_str returns an error on the line: it is no URI, or its host is
\* not in the table. (On a URI without a host it does not return.)
FailsToParse(line) == ~UriFromStr(line).ok \/ UnknownHost(line)

\* C8: when line k is the first that fails to parse, reload returns the
\* error, the entries are those before the call followed by the new URLs of
\* lines 1..k-1 in order, and nothing of line k or of a later line is added.
C8_ReloadUntilFirstFailure ==
    LET lines == Lines(last.text)
        k == FirstFailing(lines)
    IN  (last.op = "reload" /\ k > 0 /\ FailsToParse(lines[k])) =>
            /\ last.res = "err"
            /\ art = last.pre.art
                        \o NewEntries(SubSeq(lines, 1, k - 1), KnownUrls(last.pre))
            /\ DOMAIN art_indices =
                  DOMAIN last.pre.art_indices
                      \cup {lines[j] : j \in 1..(k - 1)}

\* A reload failed on its last line of three: the first line was new and was
\* appended, and a later line is a URL that is still unknown.
C8_Witness ==
    LET lines == Lines(last.text)
        k == FirstFailing(lines)
    IN  /\ last.op = "reload"
        /\ last.res = "err"
        /\ k = 2
        /\ Len(lines) = 3
        /\ Len(art) = Len(last.pre.art) + 1
        /\ Recognized(lines[3])
        /\ lines[3] \notin DOMAIN art_indices

\* ---------------------------------------------------------------------- C9
\* C9: after a reload failed with a ParseError the Mutex is usable (no
\* request unwinds on a poisoned lock) and the reload thread is alive to
\* apply a later reload.
C9_ReloadErrorRecoverable ==
    reloadRes = "err" =>
        /\ reloader = "waiting"
        /\ ~poisoned
        /\ \A r \in Reqs : ~(req[r].pc = "done" /\ req[r].result = Panic("PoisonError"))

\* --------------------------------------------------------------------- C10
\* C10: pick_random_art never runs on an empty registry: no request unwinds
\* on the empty range of fastrand::usize(0..0).
C10_NeverPickEmpty ==
    \A r \in Reqs : ~(req[r].pc = "done" /\ req[r].result = Panic("empty range"))

\* --------------------------------------------------------------------- C11
\* The answered attempts of try_request, and the failed ones among them.
IsApi(e) == e.call = "sb_api"

IsApiFailure(e) == e.call = "sb_api" /\ e.kind \in ApiErrors

ApiAttempts == SelectSeq(hist, IsApi)

\* C11: the attempts of try_request come first and all request the same API
\* URL; there are never more than 6; every attempt but the last failed; while
\* one is in flight it is attempt number (failures + 1) <= 6; when all of them
\* failed and the resolver has returned, there were exactly 6 and the result
\* is the error of the 6th; when attempt n is the first to succeed nothing
\* is attempted after it and the resolution goes on with the first post of
\* that response.
C11_RetrySixAttempts ==
    LET n == Len(ApiAttempts) IN
    /\ n <= 6
    /\ ApiAttempts = SubSeq(hist, 1, n)
    /\ \A i \in 1..n : hist[i].url = ApiUrl("1")
    /\ \A i \in 1..(n - 1) : IsApiFailure(hist[i])
    /\ req[1].pc = "sb_api" =>
          /\ n = Len(hist)
          /\ \A i \in 1..n : IsApiFailure(hist[i])
          /\ req[1].calls = n + 1
          /\ n + 1 <= 6
    /\ (req[1].pc = "done" /\ n > 0 /\ IsApiFailure(hist[n])) =>
          /\ n = 6
          /\ Len(hist) = 6
          /\ req[1].calls = 6
          /\ req[1].result = Err(hist[6].kind)
    /\ (n > 0 /\ hist[n].kind = "posts") =>
          /\ req[1].calls >= n
          /\ (Len(hist) = n /\ req[1].pc \in {"sb_tw", "sb_probe1"}) =>
                /\ req[1].calls = n + 1
                /\ req[1].src = SourceUrl(hist[n].posts[1])
                /\ req[1].sample = hist[n].posts[1].sample_url

\* Six attempts failed, the first and the sixth differently, and the
\* resolver returned the error of the sixth.
C11_Witness ==
    /\ req[1].pc = "done"
    /\ Len(hist) = 6
    /\ \A i \in 1..6 : IsApiFailure(hist[i])
    /\ hist[1].kind # hist[6].kind
    /\ req[1].result = Err(hist[6].kind)

\* --------------------------------------------------------------------- C12
\* A request for a Twitter entry that was not served from the cache.
TwitterResolved == req[1].art.kind = "Twitter" /\ req[1].calls > 0

\* What C12 says of the one GET whatever decides success: it goes to the
\* mirror, nothing else is requested, a success carries the Location value
\* followed by ?format=webp and no new source, a failure is an error value.
TwitterOneGet(success) ==
    /\ Len(hist) <= 1
    /\ req[1].calls = 1
    /\ req[1].pc = "tw_get" => hist = << >> /\ req[1].out = FxUrl(req[1].art.url)
    /\ req[1].pc = "done" =>
          /\ Len(hist) = 1
          /\ hist[1].call = "tw_get"
          /\ hist[1].url = "https://d.fxtwitter.com/pm/status/1"
          /\ req[1].result.tag = "ok" <=> hist[1].kind \in success
          /\ req[1].result.tag # "ok" => req[1].result.tag = "err"
          /\ hist[1].kind = "noloc" =>
                req[1].result = Err("did not return an image location")
          /\ (req[1].result.tag = "ok" /\ hist[1].loc = LocA) =>
                req[1].result.link =
                    [image_url |-> "https://pbs.twimg.com/media/A.jpg?format=webp",
                     new_source |-> None]
          /\ (req[1].result.tag = "ok" /\ hist[1].loc = LocB) =>
                req[1].result.link =
                    [image_url |-> "https://pbs.twimg.com/media/B.jpg?format=webp",
                     new_source |-> None]

\* C12 as stated: Twitter resolution issues one GET to the mirror and never
\* retries; it succeeds if and only if the response has a non-error status
\* and carries a Location header, with the Location value followed by
\* ?format=webp and no replacement source; else it returns an error.
C12_TwitterSucceedsIffLocation ==
    TwitterResolved => TwitterOneGet({"loc", "badloc"})

\* C12 as amended: the same, success being a non-error status with a
\* Location header whose value is visible ASCII text; a Location value that
\* is not (to_str fails) is an error like a missing header.
C12_TwitterSucceedsIffTextLocation ==
    TwitterResolved => TwitterOneGet({"loc"})

\* The mirror answered with a Location and the request ended with its link.
C12_Witness ==
    /\ TwitterResolved
    /\ req[1].pc = "done"
    /\ Len(hist) = 1
    /\ hist[1].kind = "loc"
    /\ hist[1].loc = LocB
    /\ req[1].result.tag = "ok"

\* --------------------------------------------------------------------- C13
\* The URL has no id pair with a value: no query at all, or no id in it.
HasNoId(url) ==
    LET u == UriFromStr(url) IN
    \/ u.query = None
    \/ IdOf(FormUrlencodedParse(u.query), "") = ""

\* C13: a request for a Safebooru entry whose URL has no id (no id pair, or
\* no query string at all) ends with the error "no id?" returned by the
\* resolver, and no outbound request was issued for it.
C13_NoIdReturnsError ==
    (/\ req[1].pc = "done"
     /\ req[1].art.kind = "Safebooru"
     /\ HasNoId(req[1].art.url))
    => /\ req[1].result = Err("no id?")
       /\ req[1].calls = 0
       /\ hist = << >>

\* --------------------------------------------------------------------- C14
\* The task is inside a resolver, awaiting the answer to an outbound request.
Awaiting(r) == req[r].pc \in {"tw_get", "sb_api", "sb_tw", "sb_probe1", "sb_probe2"}

\* A task that finds no link for its URL enters the resolver at once, whatever
\* the other tasks are doing.
C14_MissResolves ==
    \A r \in Reqs :
        (/\ req[r].pc = "picked"
         /\ req'[r] # req[r]
         /\ req[r].art.url \notin DOMAIN direct_links)
        => /\ req'[r].calls = 1
           /\ Awaiting(r)'

\* A task whose resolver succeeds stores its link under its URL, over
\* whatever another task stored there meanwhile.
C14_SuccessWrites ==
    \A r \in Reqs :
        (Awaiting(r) /\ req'[r].pc = "done" /\ req'[r].result.tag = "ok")
        => /\ req[r].art.url \in DOMAIN direct_links'
           /\ direct_links'[req[r].art.url] = req'[r].result.link

\* No task waits for another: the next step of a task that picked an entry,
\* and the answer to a request in flight, can always be taken.
C14_NeverWaits ==
    \A r \in Reqs :
        /\ req[r].pc = "picked" => ENABLED Lookup(r)
        /\ req[r].pc = "tw_get" => ENABLED TwGetDone(r, RaceEnv)
        /\ req[r].pc = "sb_api" => ENABLED SbApiOk(r, RaceEnv)

\* The link stored for a URL changes only by the insert of a task whose
\* resolver just succeeded for that URL, and no URL is dropped: the cache
\* holds for a URL the link of the insert made last.
C14_OnlyInsertsWrite ==
    /\ DOMAIN direct_links \subseteq DOMAIN direct_links'
    /\ \A u \in DOMAIN direct_links' :
          (u \notin DOMAIN direct_links \/ direct_links'[u] # direct_links[u]) =>
              \E r \in Reqs :
                  /\ Awaiting(r)
                  /\ req'[r].pc = "done"
                  /\ req'[r].result.tag = "ok"
                  /\ req[r].art.url = u
                  /\ direct_links'[u] = req'[r].result.link

\* C14: two tasks that miss the cache for the same URL both run the resolver
\* and both insert, neither waits for the other, every insert overwrites the
\* link stored before it and nothing else changes it, so that once both have
\* succeeded the cache holds for the URL the link inserted last.
C14_ConcurrentMissesLastWins ==
    /\ [][C14_MissResolves /\ C14_SuccessWrites /\ C14_OnlyInsertsWrite]_vars
    /\ []C14_NeverWaits

\* Both tasks resolved the same URL to different links; the cache holds the
\* link of the second.
C14_Witness ==
    /\ Ended(1, "ok") /\ Ended(2, "ok")
    /\ req[1].calls > 0 /\ req[2].calls > 0
    /\ req[1].art.url = req[2].art.url
    /\ req[1].result.link # req[2].result.link
    /\ direct_links[req[1].art.url] = req[2].result.link

\* --------------------------------------------------------------------- C15
\* No task holds the MutexGuard of data once the statement that picks its
\* entry is over, so none holds it while a request of its own is in flight.
C15_NoGuardHeld == \A r \in Reqs : ~req[r].guard

\* The lock can be taken whatever the tasks in flight are doing: the reload
\* thread can run on a signal, and an idle task can pick.
C15_LockAvailable ==
    /\ (parsed = "ok" /\ reloader = "waiting") =>
          ENABLED SignalReloadFrom(OneLineTexts)
    /\ \A r \in Reqs : (parsed = "ok" /\ req[r].pc = "idle") => ENABLED Pick(r)

\* From its pick to its response a task keeps the entry it picked, whatever
\* happens to the registry.
C15_PickedEntryKept ==
    \A r \in Reqs :
        (req[r].pc # "idle" /\ req'[r].pc # "idle") => req'[r].art = req[r].art

\* C15: the registry lock is held only for the pick-and-copy: no task holds
\* it while one of its outbound requests is in flight, a reload or another
\* task's pick can take it whatever the other tasks are awaiting, and a task
\* that picked its entry ends with that entry whatever the reload does.
C15_LockOnlyForPick ==
    /\ [][C15_PickedEntryKept]_vars
    /\ [](C15_NoGuardHeld /\ C15_LockAvailable)

\* While a task awaits the answer to its request, a reload has added an entry
\* and another task has picked the added entry.
C15_Witness ==
    \E r, o \in Reqs :
        /\ Awaiting(r)
        /\ reloadRes = "ok"
        /\ Len(initial) > 0
        /\ Len(art) > Len(initial)
        /\ req[r].art = initial[1]
        /\ req[o].pc = "picked"
        /\ req[o].art = art[Len(art)]
        /\ req[o].art # req[r].art

\* --------------------------------------------------------------------- C16
\* The position in hist of the API response that decoded, 0 when there is
\* none yet, and the first post of that response.
ApiAnswered == IF \E i \in 1..Len(hist) : hist[i].kind = "posts"
               THEN CHOOSE i \in 1..Len(hist) : hist[i].kind = "posts"
               ELSE 0

HasPost == ApiAnswered > 0 /\ hist[ApiAnswered].posts # << >>

FirstPost == hist[ApiAnswered].posts[1]

\* The source field is a string that parses as a URI on twitter.com or x.com.
OnTwitter(source) ==
    /\ source \notin {None, NonStr}
    /\ UriFromStr(source).ok
    /\ UriFromStr(source).host \in {"twitter.com", "x.com"}

SampleErrors ==
    {"safebooru did not return sample url", "safebooru sample url wasnt a string",
     "safebooru sample url was not valid"}

IsProbe(e) == e.call \in {"sb_probe1", "sb_probe2"}

\* C16: when the source of the post is on twitter.com or x.com, the request
\* that follows the API response goes to the mirror for that source, before
\* any probe; its success ends the resolution with the mirror's link and the
\* source as new_source, without a probe; its failure is not returned: the
\* sample_url is handled next, only probes follow, and a link that results
\* carries the source as new_source. For any other source (absent, not a
\* string, not a URI, another host) no request goes to the mirror.
C16_TwitterSourceFirst ==
    HasPost =>
        LET n == ApiAnswered
            src == FirstPost.source
        IN  IF OnTwitter(src)
            THEN /\ Len(hist) = n => req[1].pc = "sb_tw" /\ req[1].out = FxUrl(src)
                 /\ Len(hist) > n =>
                       /\ hist[n + 1].call = "sb_tw"
                       /\ hist[n + 1].url = FxUrl(src)
                       /\ \A i \in (n + 2)..Len(hist) : IsProbe(hist[i])
                       /\ IF hist[n + 1].kind = "loc"
                          THEN /\ Len(hist) = n + 1
                               /\ req[1].pc = "done"
                               /\ req[1].result =
                                     Ok([image_url |-> WithWebp(hist[n + 1].loc),
                                         new_source |-> src])
                          ELSE /\ req[1].pc \in {"sb_probe1", "sb_probe2", "done"}
                               /\ req[1].pc = "done" =>
                                     /\ req[1].result.tag = "ok" =>
                                           /\ req[1].result.link.new_source = src
                                           /\ Len(hist) = n + 3
                                     /\ req[1].result.tag = "err" =>
                                           req[1].result.msg \in SampleErrors
            ELSE /\ req[1].pc # "sb_tw"
                 /\ \A i \in 1..Len(hist) : hist[i].call # "sb_tw"

\* The source was on x.com, the mirror answered with an error status, both
\* probes were made and the link carries the source.
C16_Witness ==
    /\ HasPost
    /\ FirstPost.source = X1
    /\ req[1].pc = "done"
    /\ Len(hist) = ApiAnswered + 3
    /\ hist[ApiAnswered + 1].kind = "status"
    /\ req[1].result.tag = "ok"
    /\ req[1].result.link.new_source = X1

\* --------------------------------------------------------------------- C17
Probes == SelectSeq(hist, IsProbe)

PlainForm == "https://safebooru.org/samples/1/sample_x.jpg"

SecondForm == "https://safebooru.org//samples/1/sample_x.jpg"

\* C17: the probes are the last requests of a resolution and there are never
\* more than two; the first goes to the plain form, and whatever its outcome
\* the second goes to the form with the extra separator; after the second
\* the resolver returns a link, whose image_url is the plain form if its
\* probe succeeded, else the second form if its probe succeeded, else the
\* sample_url as the API gave it; no probe is repeated and no outcome of a
\* probe makes the resolution fail.
C17_SampleFallback ==
    LET n == Len(Probes)
        k == Len(hist) - n
    IN  /\ n <= 2
        /\ Probes = SubSeq(hist, k + 1, Len(hist))
        /\ req[1].pc = "sb_probe1" =>
              /\ n = 0
              /\ req[1].sample = SampleQ
              /\ req[1].out = PlainForm
        /\ n = 1 =>
              /\ Probes[1].call = "sb_probe1"
              /\ Probes[1].url = PlainForm
              /\ req[1].pc = "sb_probe2"
              /\ req[1].out = SecondForm
        /\ req[1].pc = "sb_probe2" => n = 1
        /\ n = 2 =>
              /\ Probes[1].call = "sb_probe1" /\ Probes[1].url = PlainForm
              /\ Probes[2].call = "sb_probe2" /\ Probes[2].url = SecondForm
              /\ req[1].pc = "done"
              /\ req[1].result.tag = "ok"
              /\ req[1].result.link.image_url =
                    IF Probes[1].kind = "ok" THEN PlainForm
                    ELSE IF Probes[2].kind = "ok" THEN SecondForm
                    ELSE SampleQ

\* The first probe failed, the second succeeded, and the link is the second
\* form.
C17_Witness ==
    /\ Len(Probes) = 2
    /\ Probes[1].kind = "fail"
    /\ Probes[2].kind = "ok"
    /\ req[1].pc = "done"
    /\ req[1].result.link.image_url = SecondForm

\* --------------------------------------------------------------------- C18
IsMirror(e) == e.call \in {"tw_get", "sb_tw"}

\* The requests of a resolution, by what they go to.
C18_CallsBounded ==
    /\ req[1].calls <= 9
    /\ Len(hist) <= req[1].calls
    /\ Len(ApiAttempts) <= 6
    /\ Len(SelectSeq(hist, IsMirror)) <= 1
    /\ Len(Probes) <= 2
    /\ req[1].art.kind = "Twitter" =>
          /\ \A i \in 1..Len(hist) : hist[i].call = "tw_get"
          /\ req[1].pc \notin {"sb_api", "sb_tw", "sb_probe1", "sb_probe2"}
    /\ req[1].art.kind = "Safebooru" =>
          /\ \A i \in 1..Len(hist) : hist[i].call # "tw_get"
          /\ \A i, j \in 1..Len(hist) :
                (i < j /\ hist[i].call = "sb_tw") => hist[j].call # "sb_api"
          /\ req[1].pc # "tw_get"

\* C18: the Twitter resolver makes its one request and calls no resolver; the
\* Safebooru resolver calls the Twitter resolver at most once and never goes
\* back to the API after it; a resolution makes at most 9 outbound requests
\* (6 to the API, 1 to the mirror, 2 probes); and when every request is
\* answered, every request that picked an entry ends.
C18_FallbackBounded ==
    /\ []C18_CallsBounded
    /\ (req[1].pc = "picked") ~> (req[1].pc = "done")

\* A resolution that made 9 outbound requests.
C18_Witness ==
    /\ req[1].pc = "done"
    /\ req[1].calls = 9
    /\ Len(hist) = 9
    /\ Len(ApiAttempts) = 6
    /\ Len(Probes) = 2

\* --------------------------------------------------------------------- C19
\* The line parses as a URI and has no host.
Hostless(line) == UriFromStr(line).ok /\ UriFromStr(line).host = None

\* C19: parse and reload end with the registry or with an error value
\* returned to the caller, whatever the lines are; when the first line that
\* is not a recognized URL is a URI without a host, they return an error.
C19_EntryConstructionTotal ==
    last.op \in {"parse", "reload"} =>
        LET lines == Lines(last.text)
            k == FirstFailing(lines)
        IN  /\ last.res \in {"ok", "err"}
            /\ (k > 0 /\ Hostless(lines[k])) => last.res = "err"

\* --------------------------------------------------------------------- C20
\* C20: once an attempt of the API request has decoded a JSON array of
\* objects, whatever the array holds, the resolver ends with a link or with
\* an error value returned to show_art.
C20_ResolutionTotal ==
    (req[1].pc = "done" /\ ApiAnswered > 0) => req[1].result.tag \in {"ok", "err"}

====
